---- MODULE Spec2Model ----
(***************************************************************************)
(* Model of generate_sample_data.py: the metric catalog builder, the host  *)
(* catalog builder, the value synthesizer, the series generator and the    *)
(* main pipeline that drives them from one seeded random stream.           *)
(*                                                                         *)
(* Numbers.  Python floats are modelled in decimal fixed point: a number   *)
(* is a record [w, f] standing for w + f / Scale with 0 <= f < Scale, so   *)
(* that the largest built-in bound (100000000) and four decimal places fit *)
(* 32-bit integers.  Probabilities, draws and uniform factors are integers *)
(* in ten-thousandths.                                                     *)
(*                                                                         *)
(* Randomness.  random.seed(s) fixes the whole stream of later draws.  The *)
(* seed is modelled by the stream it selects: a tuple of StreamLen draws   *)
(* of random.random() that repeats              with period StreamLen;   *)
(* rand_pos counts the draws consumed since the seed was set.              *)
(***************************************************************************)
EXTENDS Integers, Sequences, FiniteSets, TLC

VARIABLES
    seed,                   \* args.seed, as the stream it selects
    args,                   \* parsed arguments: start_time, end_time, interval, metrics, hosts
    pc,                     \* position of the process in main()
    rand_pos,               \* draws consumed from the random stream since random.seed
    metrics,                \* main: metrics / generate_metrics: metrics
    hosts,                  \* main: hosts / generate_host_configs: hosts
    timestamp,              \* generate_time_series_data: loop variable of line 449
    host_idx,               \* position of the "for host in hosts" loop (1-based)
    metric_idx,             \* position of the "for metric in metrics" loop (1-based)
    timestamp_customer_id,  \* line 452
    timestamp_request_id,   \* line 453
    last_values,            \* line 442: key -> last generated value
    data_points,            \* line 439: the output list
    calls,                  \* history: the arguments of every generate_value call
    output_file,            \* the data set written by write_csv / write_json, or None
    run,                    \* 1 for the first run of the pipeline, 2 for the repeated one
    first_run               \* what the first run produced, kept for comparison

vars == <<seed, args, pc, rand_pos, metrics, hosts, timestamp, host_idx, metric_idx,
          timestamp_customer_id, timestamp_request_id, last_values, data_points,
          calls, output_file, run, first_run>>

\* Python None, where a number may stand too
None == [none |-> TRUE]

(***************************************************************************)
(* Bounds of the model.                                                    *)
(***************************************************************************)
StreamLen == 3
MaxHosts == 2

\* outcomes of one random.random() draw, in ten-thousandths
RandomOutcomes == {0, 5230, 9990}

\* requested metric counts (args.metrics)
MetricCounts == {-1, 0, 1, 3, 5, 15}

\* requested host counts (args.hosts)
HostCounts == -1 .. MaxHosts

\* (start_time, end_time, interval)
TimeRanges == { <<0, 90, 60>>, <<32400, 32460, 60>>,
                <<60, 0, 60>>, <<0, 60, 0>>, <<60, 0, -60>> }

(***************************************************************************)
(* Fixed-point numbers.                                                    *)
(***************************************************************************)
Scale == 100 * 100

Norm(w, f) == [w |-> w + (f \div Scale), f |-> f % Scale]
Int2Num(n) == [w |-> n, f |-> 0]
Dec(w, f) == [w |-> w, f |-> f]

Add(x, y) == Norm(x.w + y.w, x.f + y.f)
Sub(x, y) == Norm(x.w - y.w, x.f - y.f)
Less(x, y) == x.w < y.w \/ (x.w = y.w /\ x.f < y.f)
Leq(x, y) == ~Less(y, x)
NumMax(x, y) == IF Less(x, y) THEN y ELSE x
NumMin(x, y) == IF Less(y, x) THEN y ELSE x

\* x * (p / Scale) for a factor p in ten-thousandths, truncated to 1/Scale
Mul(x, p) ==
    LET a == x.w \div Scale
        b == x.w % Scale
    IN  Norm(a * p + ((b * p) \div Scale), ((b * p) % Scale) + ((x.f * p) \div Scale))

\* product of two factors in ten-thousandths
FMul(p, q) == (p * q) \div Scale

\* round(x, 2): to the nearest hundredth, ties to the even hundredth
Round2(x) ==
    LET q == x.f \div 100
        r == x.f % 100
        up == r > 50 \/ (r = 50 /\ q % 2 = 1)
    IN  Norm(x.w, (IF up THEN q + 1 ELSE q) * 100)

\* math.sin in ten-thousandths for an angle given in quarter degrees (1440 to
\* the full circle), by Bhaskara's rational approximation (error below 0.002)
Sin(qdeg) ==
    LET t == qdeg % 1440
        B(u) == 10 * ((4000 * u * (720 - u)) \div (648000 - u * (720 - u)))
    IN  IF t <= 720 THEN B(t) ELSE 0 - B(t - 720)

(***************************************************************************)
(* The random stream.                                                      *)
(***************************************************************************)
\* mutant: main without random.seed, the stream goes on where it was
RandomNotSeeded(pos) == pos

\* random.seed(args.seed): the stream restarts at its first draw
RandomSeed(pos) == 0

\* random.random() as the draw at stream position pos, in ten-thousandths
Random(pos) == seed[(pos % StreamLen) + 1]

\* random.uniform(a, b) = a + (b - a) * random(), a and b in ten-thousandths
Uniform(a, b, pos) == a + (((b - a) * Random(pos)) \div Scale)

\* random.choice(seq): one draw selects the index
Choice(seq, pos) == seq[((Random(pos) * Len(seq)) \div Scale) + 1]

(***************************************************************************)
(* Module-level data.  A metric name is the sequence of its dot-separated  *)
(* segments, so that name.split(".")[0] is Head(name).                     *)
(***************************************************************************)
HIGH_CARDINALITY_METRICS == <<
    [name |-> <<"request", "latency">>, unit |-> "milliseconds",
     min |-> Int2Num(1), max |-> Int2Num(500), pattern |-> "stable_with_spikes",
     anomaly_chance |-> 200, high_cardinality |-> TRUE,
     tag_keys |-> <<"customer_id", "request_id">>],
    [name |-> <<"user", "activity">>, unit |-> "actions_per_min",
     min |-> Int2Num(0), max |-> Int2Num(1000), pattern |-> "daily_cycle",
     anomaly_chance |-> 100, high_cardinality |-> TRUE,
     tag_keys |-> <<"customer_id">>],
    [name |-> <<"transaction", "value">>, unit |-> "dollars",
     min |-> Dec(0, 1000), max |-> Dec(999, 9900), pattern |-> "random_spikes",
     anomaly_chance |-> 300, high_cardinality |-> TRUE,
     tag_keys |-> <<"customer_id", "request_id">>] >>

METRIC_TEMPLATES == <<
    [name |-> <<"cpu", "usage">>, unit |-> "percent",
     min |-> Int2Num(0), max |-> Int2Num(100), pattern |-> "daily_cycle",
     anomaly_chance |-> 100],
    [name |-> <<"memory", "used">>, unit |-> "percent",
     min |-> Int2Num(20), max |-> Int2Num(95), pattern |-> "gradual_increase",
     anomaly_chance |-> 50],
    [name |-> <<"disk", "io">>, unit |-> "ops_per_sec",
     min |-> Int2Num(0), max |-> Int2Num(5000), pattern |-> "bursty",
     anomaly_chance |-> 200],
    [name |-> <<"network", "in", "bytes">>, unit |-> "bytes_per_sec",
     min |-> Int2Num(0), max |-> Int2Num(100000000), pattern |-> "daily_cycle",
     anomaly_chance |-> 150],
    [name |-> <<"network", "out", "bytes">>, unit |-> "bytes_per_sec",
     min |-> Int2Num(0), max |-> Int2Num(80000000), pattern |-> "daily_cycle",
     anomaly_chance |-> 150],
    [name |-> <<"latency", "ms">>, unit |-> "milliseconds",
     min |-> Int2Num(1), max |-> Int2Num(500), pattern |-> "stable_with_spikes",
     anomaly_chance |-> 300],
    [name |-> <<"requests", "count">>, unit |-> "count_per_min",
     min |-> Int2Num(0), max |-> Int2Num(10000), pattern |-> "daily_cycle",
     anomaly_chance |-> 100],
    [name |-> <<"disk", "free">>, unit |-> "percent",
     min |-> Int2Num(5), max |-> Int2Num(80), pattern |-> "gradual_decrease",
     anomaly_chance |-> 20],
    [name |-> <<"errors", "count">>, unit |-> "count_per_min",
     min |-> Int2Num(0), max |-> Int2Num(100), pattern |-> "random_spikes",
     anomaly_chance |-> 500],
    [name |-> <<"temperature">>, unit |-> "celsius",
     min |-> Int2Num(25), max |-> Int2Num(85), pattern |-> "correlated_with_cpu",
     anomaly_chance |-> 80] >>

\* the suffix list of line 237
VARIATION_SUFFIXES == <<"rate", "count", "total", "max", "p95", "p99">>

\* "{:0<width>d}".format(i)
RECURSIVE ZeroPad(_, _)
ZeroPad(i, width) ==
    IF width > 1 /\ i < 10 ^ (width - 1)
    THEN "0" \o ZeroPad(i, width - 1)
    ELSE ToString(i)

TAG_CATEGORIES == <<
    [category |-> "host",
     values |-> [i \in 1 .. 100 |-> "server" \o ZeroPad(i, 2)]],
    [category |-> "datacenter",
     values |-> <<"us-east", "us-west", "eu-central", "ap-south", "ap-northeast">>],
    [category |-> "environment",
     values |-> <<"prod", "staging", "dev", "test">>],
    [category |-> "service",
     values |-> <<"api", "web", "db", "cache", "auth", "worker", "queue", "storage",
                  "analytics", "search", "recommendation", "payment", "notification",
                  "user", "admin">>],
    [category |-> "instance_type",
     values |-> <<"t3.micro", "t3.small", "t3.medium", "m5.large", "c5.xlarge",
                  "r5.2xlarge">>],
    [category |-> "os", values |-> <<"linux", "windows">>],
    [category |-> "kernel_version", values |-> <<"4.15.0", "5.4.0", "5.10.0">>],
    [category |-> "disk_type", values |-> <<"ssd", "hdd">>],
    [category |-> "customer_id",
     values |-> [i \in 1 .. 10000 |-> "cust" \o ZeroPad(i, 6)]],
    [category |-> "request_id",
     values |-> [i \in 1 .. 1000 |-> "req" \o ZeroPad(i, 8)]] >>

\* TAG_CATEGORIES[category]
TagValues(category) ==
    TAG_CATEGORIES[CHOOSE i \in DOMAIN TAG_CATEGORIES : TAG_CATEGORIES[i].category = category].values

(***************************************************************************)
(* generate_metrics.                                                       *)
(***************************************************************************)
\* Python seq[:k], for any integer k
SliceTo(seq, k) ==
    LET n == IF k >= 0 THEN (IF k < Len(seq) THEN k ELSE Len(seq))
             ELSE (IF Len(seq) + k > 0 THEN Len(seq) + k ELSE 0)
    IN  SubSeq(seq, 1, n)

\* lines 217-227: what the function holds when it returns or enters the loop
TemplateMetrics(num_metrics) ==
    LET metrics_needed == num_metrics - Len(HIGH_CARDINALITY_METRICS)
    IN  IF metrics_needed <= Len(METRIC_TEMPLATES)
        THEN [metrics |-> HIGH_CARDINALITY_METRICS \o SliceTo(METRIC_TEMPLATES, metrics_needed),
              returned |-> TRUE]
        ELSE [metrics |-> HIGH_CARDINALITY_METRICS \o METRIC_TEMPLATES,
              returned |-> FALSE]

\* lines 232-242: one variation, from the four draws at pos .. pos + 3
Variation(pos) ==
    LET template == Choice(METRIC_TEMPLATES, pos)
        base_name == Head(template.name)
        suffix == Choice(VARIATION_SUFFIXES, pos + 1)
    IN  [template EXCEPT
            !.name = <<base_name, suffix>>,
            !.min = NumMax(Int2Num(0), Mul(template.min, Uniform(5000, 15000, pos + 2))),
            !.max = Mul(template.max, Uniform(8000, 12000, pos + 3))]

(***************************************************************************)
(* generate_host_configs.                                                  *)
(***************************************************************************)
\* mutant: the id formatted from the number of hosts instead of the index
HostIdOfCount(i) == "server" \o ZeroPad(args.hosts, 2)

\* line 262
HostId(i) == "server" \o ZeroPad(i, 2)

\* lines 268-278: the categories from the k-th on, drawing from pos on
RECURSIVE HostTags(_, _, _)
HostTags(k, tags, pos) ==
    IF k > Len(TAG_CATEGORIES) THEN [tags |-> tags, pos |-> pos]
    ELSE LET category == TAG_CATEGORIES[k].category
             values == TAG_CATEGORIES[k].values
         IN  IF category = "host" \/ category \in {"customer_id", "request_id"}
             THEN HostTags(k + 1, tags, pos)
             ELSE IF Random(pos) < 8000
                  THEN HostTags(k + 1, (category :> Choice(values, pos + 1)) @@ tags, pos + 2)
                  ELSE HostTags(k + 1, tags, pos + 1)

\* lines 262-283: the i-th host, and the stream position after building it
HostConfig(i, pos) ==
    LET host_id == HostId(i)
        built == HostTags(1, "host" :> host_id, pos)
    IN  [host |-> [id |-> host_id, tags |-> built.tags], pos |-> built.pos]

(***************************************************************************)
(* generate_value.  Every helper returns the value it computes and the     *)
(* stream position after the draws it made: [v |-> value, pos |-> next].   *)
(***************************************************************************)
\* min_val + value_range * f, f in ten-thousandths
RangePoint(metric, f) == Add(metric.min, Mul(Sub(metric.max, metric.min), f))

\* lines 313-323 (datetime.fromtimestamp read in UTC)
DailyCycle(metric, hour, pos) ==
    IF 9 <= hour /\ hour < 17
    THEN LET work_hour == hour - 9
             \* pi * (work_hour / 8 - 0.5) in quarter degrees
             daily_factor == 5000 + FMul(5000, Sin(90 * work_hour - 360))
         IN  [v |-> RangePoint(metric, 6000 + FMul(4000, daily_factor)), pos |-> pos]
    ELSE [v |-> RangePoint(metric, Uniform(1000, 4000, pos)), pos |-> pos + 1]

\* lines 325-336
GradualIncrease(metric, last_value, pos) ==
    IF last_value # None
    THEN LET value_range == Sub(metric.max, metric.min)
             base_value == Add(last_value, Mul(value_range, Uniform(10, 100, pos)))
             over == Less(metric.max, base_value)
             high == Less(RangePoint(metric, 7000), base_value)
             reset == over \/ (high /\ Random(pos + 1) < 100)
             p == IF ~over /\ high THEN pos + 2 ELSE pos + 1
         IN  IF reset
             THEN [v |-> RangePoint(metric, Uniform(1000, 3000, p)), pos |-> p + 1]
             ELSE [v |-> base_value, pos |-> p]
    ELSE [v |-> RangePoint(metric, Uniform(2000, 4000, pos)), pos |-> pos + 1]

\* lines 338-348
GradualDecrease(metric, last_value, pos) ==
    IF last_value # None
    THEN LET value_range == Sub(metric.max, metric.min)
             base_value == Sub(last_value, Mul(value_range, Uniform(10, 100, pos)))
             under == Less(base_value, metric.min)
             low == Less(base_value, RangePoint(metric, 3000))
             reset == under \/ (low /\ Random(pos + 1) < 100)
             p == IF ~under /\ low THEN pos + 2 ELSE pos + 1
         IN  IF reset
             THEN [v |-> RangePoint(metric, Uniform(7000, 9000, p)), pos |-> p + 1]
             ELSE [v |-> base_value, pos |-> p]
    ELSE [v |-> RangePoint(metric, Uniform(6000, 8000, pos)), pos |-> pos + 1]

\* lines 350-366
Bursty(metric, last_value, pos) ==
    LET value_range == Sub(metric.max, metric.min)
    IN  IF last_value # None /\ Less(RangePoint(metric, 5000), last_value)
        THEN IF Random(pos) < 8000
             THEN LET change == Mul(value_range, Uniform(-1000, 1000, pos + 1))
                      base_value == Add(last_value, change)
                  IN  [v |-> NumMax(metric.min, NumMin(metric.max, base_value)),
                       pos |-> pos + 2]
             ELSE [v |-> RangePoint(metric, Uniform(500, 2000, pos + 1)), pos |-> pos + 2]
        ELSE IF Random(pos) < 500
             THEN [v |-> RangePoint(metric, Uniform(5000, 8000, pos + 1)), pos |-> pos + 2]
             ELSE [v |-> RangePoint(metric, Uniform(500, 2000, pos + 1)), pos |-> pos + 2]

\* lines 368-379
StableWithSpikes(metric, pos) ==
    LET value_range == Sub(metric.max, metric.min)
        stable_value == RangePoint(metric, 2000)
    IN  IF Random(pos) < 1000
        THEN [v |-> RangePoint(metric, Uniform(3000, 8000, pos + 1)), pos |-> pos + 2]
        ELSE [v |-> Add(stable_value, Mul(value_range, Uniform(-500, 500, pos + 1))),
              pos |-> pos + 2]

\* lines 381-386
RandomSpikes(metric, pos) ==
    IF Random(pos) < 1500
    THEN [v |-> RangePoint(metric, Uniform(3000, 10000, pos + 1)), pos |-> pos + 2]
    ELSE [v |-> RangePoint(metric, Uniform(0, 1000, pos + 1)), pos |-> pos + 2]

\* lines 388-393: day_progress * 2 * pi is (hour * 60 + minute) quarter degrees
CorrelatedWithCpu(metric, hour, minute, pos) ==
    LET value_range == Sub(metric.max, metric.min)
        cpu_like == Add(metric.min,
                        Mul(Mul(value_range, 4000), 10000 + Sin(hour * 60 + minute)))
        noise == Mul(value_range, Uniform(-1000, 1000, pos))
    IN  [v |-> Add(cpu_like, noise), pos |-> pos + 1]

\* lines 312-396: the pattern dispatch
BaseValue(ts, metric, last_value, pos) ==
    LET hour == (ts \div 3600) % 24
        minute == (ts \div 60) % 60
        pattern == metric.pattern
    IN  CASE pattern = "daily_cycle" -> DailyCycle(metric, hour, pos)
          [] pattern = "gradual_increase" -> GradualIncrease(metric, last_value, pos)
          [] pattern = "gradual_decrease" -> GradualDecrease(metric, last_value, pos)
          [] pattern = "bursty" -> Bursty(metric, last_value, pos)
          [] pattern = "stable_with_spikes" -> StableWithSpikes(metric, pos)
          [] pattern = "random_spikes" -> RandomSpikes(metric, pos)
          [] pattern = "correlated_with_cpu" -> CorrelatedWithCpu(metric, hour, minute, pos)
          [] OTHER -> [v |-> RangePoint(metric, Random(pos)), pos |-> pos + 1]

\* lines 402-410: the anomaly override of value, from the roll at pos on
Anomaly(metric, value, pos) ==
    IF Random(pos) < metric.anomaly_chance
    THEN IF Random(pos + 1) < 5000
         THEN [v |-> RangePoint(metric, Uniform(8000, 12000, pos + 2)), pos |-> pos + 3]
         ELSE [v |-> RangePoint(metric, Uniform(0, 2000, pos + 2)), pos |-> pos + 3]
    ELSE [v |-> value, pos |-> pos + 1]

\* line 413
Clamp(metric, value) == NumMax(metric.min, NumMin(metric.max, value))

\* lines 288-416
generate_value(ts, metric, last_value, pos) ==
    LET value_range == Sub(metric.max, metric.min)
        base == BaseValue(ts, metric, last_value, pos)
        noise == Mul(value_range, Uniform(-200, 200, base.pos))
        anomaly == Anomaly(metric, Add(base.v, noise), base.pos + 1)
    IN  [v |-> Round2(Clamp(metric, anomaly.v)), pos |-> anomaly.pos]

(***************************************************************************)
(* generate_time_series_data.                                              *)
(***************************************************************************)
\* mutant: range(start_time, end_time, interval), which leaves end_time out
RangeYieldsExclusive(t) ==
    IF args.interval > 0 THEN t < args.end_time ELSE t > args.end_time

\* line 449: whether range(start_time, end_time + 1, interval) yields t
RangeYields(t) ==
    IF args.interval > 0 THEN t < args.end_time + 1 ELSE t > args.end_time + 1

\* line 463
Key(host_id, metric_name) == <<host_id, metric_name>>

\* line 466: last_values.get(key)
LastValue(key) == IF key \in DOMAIN last_values THEN last_values[key] ELSE None

\* mutant: the ids drawn anew for every point instead of once per timestamp
PointTagsPerPoint(host_tags, metric, customer_id, request_id) ==
    LET high == IF "high_cardinality" \in DOMAIN metric
                THEN metric.high_cardinality ELSE FALSE
        tag_keys == IF high /\ "tag_keys" \in DOMAIN metric THEN metric.tag_keys ELSE <<>>
        added == {tag_keys[i] : i \in DOMAIN tag_keys} \cap {"customer_id", "request_id"}
    IN  [k \in added |-> IF k = "customer_id"
                         THEN Choice(TagValues("customer_id"), rand_pos)
                         ELSE Choice(TagValues("request_id"), rand_pos + 1)]
            @@ host_tags

\* lines 475-483: the tags of a point
PointTags(host_tags, metric, customer_id, request_id) ==
    LET high == IF "high_cardinality" \in DOMAIN metric
                THEN metric.high_cardinality ELSE FALSE
        tag_keys == IF high /\ "tag_keys" \in DOMAIN metric THEN metric.tag_keys ELSE <<>>
        added == {tag_keys[i] : i \in DOMAIN tag_keys} \cap {"customer_id", "request_id"}
    IN  [k \in added |-> IF k = "customer_id" THEN customer_id ELSE request_id]
            @@ host_tags

(***************************************************************************)
(* The state before main() runs.                                           *)
(***************************************************************************)
NoFile == [written |-> FALSE, rows |-> <<>>]

Init ==
    /\ seed \in [1 .. StreamLen -> RandomOutcomes]
    /\ \E t \in TimeRanges, m \in MetricCounts, h \in HostCounts :
          args = [start_time |-> t[1], end_time |-> t[2], interval |-> t[3],
                  metrics |-> m, hosts |-> h]
    /\ pc = "main"
    /\ rand_pos = 0
    /\ metrics = <<>>
    /\ hosts = <<>>
    /\ timestamp = 0
    /\ host_idx = 0
    /\ metric_idx = 0
    /\ timestamp_customer_id = ""
    /\ timestamp_request_id = ""
    /\ last_values = <<>>
    /\ data_points = <<>>
    /\ calls = <<>>
    /\ output_file = NoFile
    /\ run = 1
    /\ first_run = None

(***************************************************************************)
(* main, lines 548-560: seed the stream and print the expected number of   *)
(* points, which divides by args.interval (ZeroDivisionError when 0).      *)
(***************************************************************************)
MainStart ==
    /\ pc = "main"
    /\ rand_pos' = RandomSeed(rand_pos)
    /\ pc' = IF args.interval = 0 THEN "failed" ELSE "generate_metrics"
    /\ UNCHANGED <<seed, args, metrics, hosts, timestamp, host_idx, metric_idx,
                   timestamp_customer_id, timestamp_request_id, last_values,
                   data_points, calls, output_file, run, first_run>>

\* generate_metrics, lines 217-227; when it returns at line 224 main enters
\* generate_host_configs (line 259)
GenerateMetricsTemplates ==
    /\ pc = "generate_metrics"
    /\ LET t == TemplateMetrics(args.metrics)
       IN  /\ metrics' = t.metrics
           /\ pc' = IF t.returned THEN "generate_host_configs" ELSE "variations"
    /\ hosts' = IF TemplateMetrics(args.metrics).returned THEN <<>> ELSE hosts
    /\ UNCHANGED <<seed, args, rand_pos, timestamp, host_idx, metric_idx,
                   timestamp_customer_id, timestamp_request_id, last_values,
                   data_points, calls, output_file, run, first_run>>

\* generate_metrics, lines 230-244: one pass of the while loop
GenerateMetricsVariation ==
    /\ pc = "variations"
    /\ Len(metrics) < args.metrics
    /\ metrics' = Append(metrics, Variation(rand_pos))
    /\ rand_pos' = rand_pos + 4
    /\ UNCHANGED <<seed, args, pc, hosts, timestamp, host_idx, metric_idx,
                   timestamp_customer_id, timestamp_request_id, last_values,
                   data_points, calls, output_file, run, first_run>>

\* generate_metrics, line 246, and the entry of generate_host_configs (line 259)
GenerateMetricsReturn ==
    /\ pc = "variations"
    /\ ~(Len(metrics) < args.metrics)
    /\ metrics' = SliceTo(metrics, args.metrics)
    /\ hosts' = <<>>
    /\ pc' = "generate_host_configs"
    /\ UNCHANGED <<seed, args, rand_pos, timestamp, host_idx, metric_idx,
                   timestamp_customer_id, timestamp_request_id, last_values,
                   data_points, calls, output_file, run, first_run>>

\* generate_host_configs, lines 261-283: one pass of the for loop
GenerateHost ==
    /\ pc = "generate_host_configs"
    /\ Len(hosts) < args.hosts
    /\ LET h == HostConfig(Len(hosts) + 1, rand_pos)
       IN  /\ hosts' = Append(hosts, h.host)
           /\ rand_pos' = h.pos
    /\ UNCHANGED <<seed, args, pc, metrics, timestamp, host_idx, metric_idx,
                   timestamp_customer_id, timestamp_request_id, last_values,
                   data_points, calls, output_file, run, first_run>>

\* generate_host_configs, line 285, and the entry of generate_time_series_data
\* (lines 439-449; range() raises ValueError for a zero step)
GenerateHostsReturn ==
    /\ pc = "generate_host_configs"
    /\ ~(Len(hosts) < args.hosts)
    /\ data_points' = <<>>
    /\ last_values' = <<>>
    /\ calls' = <<>>
    /\ timestamp' = args.start_time
    /\ pc' = IF args.interval = 0 THEN "failed" ELSE "for_timestamp"
    /\ UNCHANGED <<seed, args, rand_pos, metrics, hosts, host_idx, metric_idx,
                   timestamp_customer_id, timestamp_request_id, output_file,
                   run, first_run>>

\* the timestamp that follows t in the range of line 449
NextInRange(t) == t + args.interval

\* lines 449-453: the next timestamp of the range and its shared ids; with no
\* host or no metric the loops below it have no body to run
ForTimestamp ==
    /\ pc = "for_timestamp"
    /\ RangeYields(timestamp)
    /\ timestamp_customer_id' = Choice(TagValues("customer_id"), rand_pos)
    /\ timestamp_request_id' = Choice(TagValues("request_id"), rand_pos + 1)
    /\ rand_pos' = rand_pos + 2
    /\ IF Len(hosts) = 0 \/ Len(metrics) = 0
       THEN /\ timestamp' = NextInRange(timestamp)
            /\ UNCHANGED <<pc, host_idx, metric_idx>>
       ELSE /\ host_idx' = 1
            /\ metric_idx' = 1
            /\ pc' = "for_metric"
            /\ UNCHANGED timestamp
    /\ UNCHANGED <<seed, args, metrics, hosts, last_values, data_points, calls,
                   output_file, run, first_run>>

\* mutant: tags = host_tags without the copy, so the ids written into the
\* point's tags are written into the host's own mapping
HostTagsAliased(host_tags, tags) == tags

\* line 475: tags is a copy of host_tags, so the writes of lines 481-483 into
\* tags leave the host's own mapping as it was
HostTagsAfterPoint(host_tags, tags) == host_tags

\* mutant: the loops nested the other way round, "for metric" outside "for host"
LoopStepMetricOuter(h, m) ==
    IF h < Len(hosts) THEN [host |-> h + 1, metric |-> m, more |-> TRUE]
    ELSE IF m < Len(metrics) THEN [host |-> 1, metric |-> m + 1, more |-> TRUE]
    ELSE [host |-> h, metric |-> m, more |-> FALSE]

\* lines 456 and 461: the nesting of the loops, "for host" outside "for metric":
\* the host and metric that follow (h, m), or more = FALSE after the last pair
LoopStep(h, m) ==
    IF m < Len(metrics) THEN [host |-> h, metric |-> m + 1, more |-> TRUE]
    ELSE IF h < Len(hosts) THEN [host |-> h + 1, metric |-> 1, more |-> TRUE]
    ELSE [host |-> h, metric |-> m, more |-> FALSE]

\* lines 461-492: the body of the innermost loop for the current host and
\* metric, then the step of the loops
EmitPoint ==
    /\ pc = "for_metric"
    /\ LET host == hosts[host_idx]
           host_id == host.id
           host_tags == host.tags
           metric == metrics[metric_idx]
           metric_name == metric.name
           key == Key(host_id, metric_name)
           last_value == LastValue(key)
           gen == generate_value(timestamp, metric, last_value, rand_pos)
           value == gen.v
           tags == PointTags(host_tags, metric, timestamp_customer_id,
                             timestamp_request_id)
       IN  /\ last_values' = (key :> value) @@ last_values
           /\ rand_pos' = gen.pos
           /\ data_points' = Append(data_points,
                                    [timestamp |-> timestamp, metric |-> metric_name,
                                     value |-> value, tags |-> tags])
           /\ calls' = Append(calls,
                              [timestamp |-> timestamp, host |-> host_idx,
                               metric |-> metric_idx, last_value |-> last_value])
           /\ hosts' = [hosts EXCEPT ![host_idx].tags = HostTagsAfterPoint(host_tags, tags)]
    /\ LET step == LoopStep(host_idx, metric_idx)
       IN  IF step.more
           THEN /\ host_idx' = step.host
                /\ metric_idx' = step.metric
                /\ UNCHANGED <<timestamp, pc>>
           ELSE /\ timestamp' = NextInRange(timestamp)
                /\ pc' = "for_timestamp"
                /\ UNCHANGED <<host_idx, metric_idx>>
    /\ UNCHANGED <<seed, args, metrics, timestamp_customer_id,
                   timestamp_request_id, output_file, run, first_run>>

\* line 494, back in main (lines 579-586)
SeriesReturn ==
    /\ pc = "for_timestamp"
    /\ ~RangeYields(timestamp)
    /\ pc' = "write"
    /\ UNCHANGED <<seed, args, rand_pos, metrics, hosts, timestamp, host_idx,
                   metric_idx, timestamp_customer_id, timestamp_request_id,
                   last_values, data_points, calls, output_file, run, first_run>>

\* lines 589-594: write_csv / write_json put every data point in the file
WriteOutput ==
    /\ pc = "write"
    /\ output_file' = [written |-> TRUE, rows |-> data_points]
    /\ pc' = "stats"
    /\ UNCHANGED <<seed, args, rand_pos, metrics, hosts, timestamp, host_idx,
                   metric_idx, timestamp_customer_id, timestamp_request_id,
                   last_values, data_points, calls, run, first_run>>

\* lines 597-607: the statistics divide by len(metrics) * len(hosts)
Stats ==
    /\ pc = "stats"
    /\ pc' = IF Len(metrics) * Len(hosts) = 0 THEN "failed" ELSE "done"
    /\ UNCHANGED <<seed, args, rand_pos, metrics, hosts, timestamp, host_idx,
                   metric_idx, timestamp_customer_id, timestamp_request_id,
                   last_values, data_points, calls, output_file, run, first_run>>

\* the pipeline is run once more with the same arguments and the same seed
RunAgain ==
    /\ pc \in {"done", "failed"}
    /\ run = 1
    /\ first_run' = [pc |-> pc, metrics |-> metrics, hosts |-> hosts,
                     data_points |-> data_points, output_file |-> output_file,
                     rand_pos |-> rand_pos]
    /\ run' = 2
    /\ pc' = "main"
    /\ output_file' = NoFile
    /\ UNCHANGED <<seed, args, rand_pos, metrics, hosts, timestamp, host_idx,
                   metric_idx, timestamp_customer_id, timestamp_request_id,
                   last_values, data_points, calls>>

Next ==
    \/ MainStart
    \/ GenerateMetricsTemplates
    \/ GenerateMetricsVariation
    \/ GenerateMetricsReturn
    \/ GenerateHost
    \/ GenerateHostsReturn
    \/ ForTimestamp
    \/ EmitPoint
    \/ SeriesReturn
    \/ WriteOutput
    \/ Stats
    \/ RunAgain

Spec == Init /\ [][Next]_vars

(***************************************************************************)
(* Properties.                                                             *)
(***************************************************************************)
\* generate_metrics has returned its catalog to main
MetricsReturned ==
    pc \in {"generate_host_configs", "for_timestamp", "for_metric", "write", "stats", "done"}

\* generate_host_configs has returned, generate_time_series_data is running or done
InSeries == pc \in {"for_timestamp", "for_metric", "write", "stats", "done"}

\* generate_time_series_data has returned its list to main
SeriesReturned == pc \in {"write", "stats", "done"}

\* the configuration the interface asks for
ValidRange == args.start_time <= args.end_time /\ args.interval > 0

\* the metric definition the i-th data point was generated from
MetricOf(i) == metrics[calls[i].metric]

\* the tag keys a metric definition declares
DeclaredKeys(metric) ==
    IF "tag_keys" \in DOMAIN metric
    THEN {metric.tag_keys[i] : i \in DOMAIN metric.tag_keys}
    ELSE {}

\* C1: for every requested count n >= 0, generate_metrics(n) returns a catalog
\* of exactly n metric definitions (one single definition for n = 1).
C1_CatalogHasRequestedSize ==
    (MetricsReturned /\ args.metrics >= 0) => Len(metrics) = args.metrics

\* C2: every emitted data point has a value v with metric.min <= v <= metric.max
\* for the metric definition it was generated from, after the final rounding.
C2_ValuesWithinBounds ==
    InSeries =>
        \A i \in DOMAIN data_points :
            /\ Leq(MetricOf(i).min, data_points[i].value)
            /\ Leq(data_points[i].value, MetricOf(i).max)

\* the (timestamp, host id, metric name) of the k-th point of the nested
\* enumeration: timestamps ascending from start_time by interval, for each
\* timestamp every host in catalog order, for each host every metric in
\* catalog order
GridPoint(k) ==
    LET perTimestamp == Len(hosts) * Len(metrics)
    IN  <<args.start_time + ((k - 1) \div perTimestamp) * args.interval,
          hosts[(((k - 1) \div Len(metrics)) % Len(hosts)) + 1].id,
          metrics[((k - 1) % Len(metrics)) + 1].name>>

\* the number of timestamps start, start + interval, ... that are <= end
WalkedTimestamps == ((args.end_time - args.start_time) \div args.interval) + 1

\* C3: for start <= end and interval > 0 the points follow the nested
\* enumeration timestamp -> host -> metric, nothing skipped or emitted twice,
\* and the run returns (walked timestamps) x len(metrics) x len(hosts) points.
C3_GridOrder ==
    (InSeries /\ ValidRange) =>
        /\ \A i \in DOMAIN data_points :
              <<data_points[i].timestamp, data_points[i].tags["host"],
                data_points[i].metric>> = GridPoint(i)
        /\ Len(data_points) <= WalkedTimestamps * Len(metrics) * Len(hosts)
        /\ SeriesReturned =>
              Len(data_points) = WalkedTimestamps * Len(metrics) * Len(hosts)

C3_Witness ==
    /\ pc = "done" /\ ValidRange
    /\ Len(hosts) = 2 /\ Len(metrics) >= 3
    /\ Len(data_points) = 2 * 2 * Len(metrics)

\* ceil(a / b) for b > 0
CeilDiv(a, b) == 0 - ((0 - a) \div b)

\* C4 as stated: for start <= end and interval > 0 the number of points is
\* (ceil((end - start) / interval) + 1) x len(metrics) x len(hosts).
C4_CeilCount ==
    (SeriesReturned /\ ValidRange) =>
        Len(data_points) =
            (CeilDiv(args.end_time - args.start_time, args.interval) + 1)
                * Len(metrics) * Len(hosts)

\* C4 amended: for start <= end and interval > 0 the number of points is
\* (floor((end - start) / interval) + 1) x len(metrics) x len(hosts).
C4_FloorCount ==
    (SeriesReturned /\ ValidRange) =>
        Len(data_points) =
            (((args.end_time - args.start_time) \div args.interval) + 1)
                * Len(metrics) * Len(hosts)

C4_Witness ==
    /\ pc = "done" /\ ValidRange
    /\ (args.end_time - args.start_time) % args.interval # 0
    /\ Len(data_points) > 0

\* C5: in the returned list, two points with the same timestamp whose metrics
\* both declare customer_id carry the same customer_id value, and likewise for
\* request_id.
C5_SharedIds ==
    SeriesReturned =>
        \A i, j \in DOMAIN data_points :
            data_points[i].timestamp = data_points[j].timestamp =>
                \A k \in {"customer_id", "request_id"} :
                    (k \in DeclaredKeys(MetricOf(i)) /\ k \in DeclaredKeys(MetricOf(j))) =>
                        /\ k \in DOMAIN data_points[i].tags
                        /\ k \in DOMAIN data_points[j].tags
                        /\ data_points[i].tags[k] = data_points[j].tags[k]

C5_Witness ==
    /\ pc = "done"
    /\ \E i, j \in DOMAIN data_points :
          /\ data_points[i].timestamp = data_points[j].timestamp
          /\ calls[i].host # calls[j].host
          /\ calls[i].metric # calls[j].metric
          /\ "request_id" \in DeclaredKeys(MetricOf(i)) \cap DeclaredKeys(MetricOf(j))
          /\ data_points[i].tags["customer_id"] = data_points[j].tags["customer_id"]
    /\ \E i, j \in DOMAIN data_points :
          /\ data_points[i].timestamp # data_points[j].timestamp
          /\ "customer_id" \in DeclaredKeys(MetricOf(i)) \cap DeclaredKeys(MetricOf(j))
          /\ data_points[i].tags["customer_id"] # data_points[j].tags["customer_id"]

\* what a finished run leaves behind: its outcome, catalogs, points, file and
\* the number of draws it consumed
RunResult ==
    [pc |-> pc, metrics |-> metrics, hosts |-> hosts, data_points |-> data_points,
     output_file |-> output_file, rand_pos |-> rand_pos]

InvalidConfig ==
    \/ args.end_time < args.start_time
    \/ args.interval <= 0
    \/ args.metrics < 0
    \/ args.hosts < 0

\* C7: an invalid configuration (end < start, interval <= 0, a negative metric
\* or host count) ends in a failure: no invalid configuration leads to a
\* normally completed generation.
C7_InvalidConfigFails ==
    InvalidConfig => pc # "done"

\* C8: in every catalog returned by generate_metrics(n) the metric names are
\* pairwise distinct.
C8_NamesDistinct ==
    MetricsReturned =>
        \A i, j \in DOMAIN metrics : i # j => metrics[i].name # metrics[j].name

\* generate_host_configs has returned its list to main
HostsReturned == InSeries

\* C9: for every n >= 0, generate_host_configs(n) returns exactly n hosts, in
\* index order, with pairwise distinct ids, each with tags["host"] equal to its
\* id and with neither customer_id nor request_id among its tags.
C9_HostCatalog ==
    (HostsReturned /\ args.hosts >= 0) =>
        /\ Len(hosts) = args.hosts
        /\ \A i, j \in DOMAIN hosts : i < j => hosts[i].id # hosts[j].id
        /\ \A i \in DOMAIN hosts :
              /\ hosts[i].id = "server" \o ZeroPad(i, 2)
              /\ "host" \in DOMAIN hosts[i].tags
              /\ hosts[i].tags["host"] = hosts[i].id
              /\ DOMAIN hosts[i].tags \cap {"customer_id", "request_id"} = {}

C9_Witness ==
    /\ pc = "done"
    /\ Len(hosts) = 2
    /\ DOMAIN hosts[1].tags # DOMAIN hosts[2].tags
    /\ \E k \in DOMAIN hosts[1].tags \cap DOMAIN hosts[2].tags :
          k # "host" /\ hosts[1].tags[k] # hosts[2].tags[k]

\* C10: for every host and every metric definition of the catalog, the previous
\* value handed to generate_value is none at the first timestamp and, at every
\* later timestamp, the value of the point emitted for the same host and the
\* same metric definition at the timestamp before.
C10_PreviousValue ==
    InSeries =>
        \A i \in DOMAIN calls :
            IF calls[i].timestamp = args.start_time
            THEN calls[i].last_value = None
            ELSE \E j \in DOMAIN calls :
                    /\ calls[j].timestamp = calls[i].timestamp - args.interval
                    /\ calls[j].host = calls[i].host
                    /\ calls[j].metric = calls[i].metric
                    /\ calls[i].last_value = data_points[j].value

\* a host's tag mapping overlaid with the shared ids for the keys a metric
\* declares, and for no other key
Overlay(host_tags, metric, customer_id, request_id) ==
    LET declared == DeclaredKeys(metric) \cap {"customer_id", "request_id"}
    IN  [k \in DOMAIN host_tags \cup declared |->
            IF k \in declared
            THEN (IF k = "customer_id" THEN customer_id ELSE request_id)
            ELSE host_tags[k]]

\* C11: every emitted point has the owning host's tags overlaid with the
\* timestamp's shared customer_id / request_id for exactly the keys its metric
\* declares (none declared: exactly the host's tags; only customer_id
\* declared: no request_id tag), and emitting a point leaves the host catalog,
\* the host's own tag mapping included, and the earlier points unchanged.
C11_PointTagsFrame ==
    [][pc = "for_metric" =>
          /\ Len(data_points') = Len(data_points) + 1
          /\ SubSeq(data_points', 1, Len(data_points)) = data_points
          /\ LET point == data_points'[Len(data_points')]
                 host == hosts[host_idx]
                 metric == metrics[metric_idx]
             IN  /\ point.tags = Overlay(host.tags, metric, timestamp_customer_id,
                                         timestamp_request_id)
                 /\ DeclaredKeys(metric) = {} => point.tags = host.tags
                 /\ DeclaredKeys(metric) = {"customer_id"} =>
                        "request_id" \notin DOMAIN point.tags
          /\ hosts' = hosts]_vars

C11_Witness ==
    /\ pc = "done"
    /\ \E i, j, k \in DOMAIN data_points :
          /\ i < j /\ j < k
          /\ calls[i].host = calls[j].host /\ calls[j].host = calls[k].host
          /\ data_points[i].timestamp = data_points[k].timestamp
          /\ DeclaredKeys(MetricOf(i)) = {"customer_id", "request_id"}
          /\ DeclaredKeys(MetricOf(j)) = {"customer_id"}
          /\ DeclaredKeys(MetricOf(k)) = {}
          /\ DOMAIN data_points[i].tags =
                DOMAIN hosts[calls[i].host].tags \cup {"customer_id", "request_id"}
          /\ "request_id" \notin DOMAIN data_points[j].tags
          /\ data_points[j].tags["customer_id"] = data_points[i].tags["customer_id"]
          /\ data_points[k].tags = hosts[calls[k].host].tags
          /\ Cardinality(DOMAIN data_points[k].tags) > 1
====
